---- MODULE Spec2Model ----
(***************************************************************************)
(* Cost-basis engines of the Trade Republic realized-gain calculators:     *)
(*   avg_realized   (compute_avg_cost.py)     moving-average pool per ISIN  *)
(*   fifo_realized  (compute_verlusttopf.py)  FIFO lot queue per ISIN       *)
(* Both engines walk the same chronologically sorted trade list, one trade *)
(* per loop iteration.  One step of the model is one iteration of both     *)
(* loops on the same trade.  Python floats are modelled as exact rationals *)
(* (records [n, d] in lowest terms, d > 0); None is the record with d = 0. *)
(***************************************************************************)
EXTENDS Integers, Sequences, FiniteSets, TLC

\* the engines: the trade list walked so far and the state of each engine
VARIABLES scenario, trades, avg, fifo

\* text normalisation: the text and what the two parsers made of it
VARIABLES raw, norm

engineVars == <<scenario, trades, avg, fifo>>

textVars == <<raw, norm>>

\* extraction: the record given to parse_trade_event and its result
VARIABLES record, parsed

\* load_trades: the events read so far and the state of the call
VARIABLES events, loaded

loadVars == <<record, parsed, events, loaded>>

vars == <<engineVars, textVars, loadVars>>

(***************************************************************************)
(* Bounds and program constants                                            *)
(***************************************************************************)
\* longest trade list explored
MaxTrades == 3

\* longest text explored
MaxText == 4

\* longest overview explored
MaxEntries == 3

\* longest event file explored
MaxEvents == 3

\* default of the `year` parameter of both engines
year == 2025

\* 1e-9, the quantity epsilon of both engines, as its inverse
QtyEpsInv == 1000000000

\* 1e-6, the shortage-warning tolerance of both engines, as its inverse
WarnEpsInv == 1000000

(***************************************************************************)
(* Exact rational arithmetic standing for Python float arithmetic          *)
(***************************************************************************)
RECURSIVE Gcd(_, _)
Gcd(a, b) == IF b = 0 THEN a ELSE Gcd(b, a % b)

AbsInt(k) == IF k < 0 THEN -k ELSE k

Rat(num, den) ==
    LET s == IF den < 0 THEN -1 ELSE 1
        g == Gcd(AbsInt(num), AbsInt(den))
    IN  [n |-> (s * num) \div g, d |-> (s * den) \div g]

None == [n |-> 0, d |-> 0]

IsNone(x) == x.d = 0

Zero == [n |-> 0, d |-> 1]

Add(x, y) == Rat(x.n * y.d + y.n * x.d, x.d * y.d)

Sub(x, y) == Rat(x.n * y.d - y.n * x.d, x.d * y.d)

Mul(x, y) == Rat(x.n * y.n, x.d * y.d)

\* x / y for y # 0 (Python raises ZeroDivisionError for y = 0; callers guard)
Div(x, y) == Rat(x.n * y.d, x.d * y.n)

Lt(x, y) == x.n * y.d < y.n * x.d

Le(x, y) == x.n * y.d <= y.n * x.d

Min(x, y) == IF Le(x, y) THEN x ELSE y

Max(x, y) == IF Le(y, x) THEN x ELSE y

AbsR(x) == [n |-> AbsInt(x.n), d |-> x.d]

\* x > 1/inv, computed without forming x.n * inv
GtEps(x, inv) == x.n > 0 /\ inv > x.d \div x.n

\* x < 1/inv
LtEps(x, inv) == x.n <= 0 \/ inv <= (x.d - 1) \div x.n

(***************************************************************************)
(* Text normalisation: parse_money and parse_shares.  A text is a sequence *)
(* of one-character strings.                                               *)
(***************************************************************************)
\* the values json.load delivers
JNull == [kind |-> "null"]

Str(chars) == [kind |-> "str", chars |-> chars]

Num(x) == [kind |-> "num", val |-> x]

Digits == <<"0", "1", "2", "3", "4", "5", "6", "7", "8", "9">>

IsDigit(c) == \E k \in DOMAIN Digits : Digits[k] = c

DigitValue(c) == (CHOOSE k \in DOMAIN Digits : Digits[k] = c) - 1

\* s.replace(c, '') for every c in cs
Without(s, cs) == SelectSeq(s, LAMBDA c : c \notin cs)

\* s.replace(a, b)
Replaced(s, a, b) == [k \in 1..Len(s) |-> IF s[k] = a THEN b ELSE s[k]]

RECURSIVE Pow10(_)
Pow10(k) == IF k = 0 THEN 1 ELSE 10 * Pow10(k - 1)

\* the number the digits among s[1..j] spell, the point left out
RECURSIVE DigitsValue(_, _)
DigitsValue(s, j) ==
    IF j = 0 THEN 0
    ELSE IF IsDigit(s[j]) THEN 10 * DigitsValue(s, j - 1) + DigitValue(s[j])
         ELSE DigitsValue(s, j - 1)

\* s without its sign
Unsigned(s) == IF s # <<>> /\ s[1] \in {"-", "+"} THEN Tail(s) ELSE s

\* float(s) succeeds: an optional sign, then digits with at most one point
\* and at least one digit (exponents, inf, nan and underscores need characters
\* the texts explored do not have)
FloatAccepts(s) ==
    LET body == Unsigned(s)
    IN  /\ \A k \in 1..Len(body) : IsDigit(body[k]) \/ body[k] = "."
        /\ Cardinality({k \in 1..Len(body) : body[k] = "."}) <= 1
        /\ \E k \in 1..Len(body) : IsDigit(body[k])

\* float(s) for a text float accepts
FloatOf(s) ==
    LET body   == Unsigned(s)
        points == {k \in 1..Len(body) : body[k] = "."}
        frac   == IF points = {} THEN 0
                  ELSE Len(body) - (CHOOSE k \in points : TRUE)
        sign   == IF s[1] = "-" THEN -1 ELSE 1
    IN  Rat(sign * DigitsValue(body, Len(body)), Pow10(frac))

\* the end of the run of digits that starts at s[i]
RunEnd(s, i) ==
    CHOOSE j \in i..Len(s) :
        /\ \A k \in i..j : IsDigit(s[k])
        /\ IF j = Len(s) THEN TRUE ELSE ~IsDigit(s[j + 1])

\* re.search(r'-?\d+(?:\.\d+)?', s): the leftmost match, every part of it as
\* long as possible; <<>> when nothing matches
FirstNumber(s) ==
    LET starts == {i \in 1..Len(s) :
                     \/ IsDigit(s[i])
                     \/ s[i] = "-" /\ i < Len(s) /\ IsDigit(s[i + 1])}
    IN  IF starts = {} THEN <<>>
        ELSE LET i  == CHOOSE a \in starts : \A b \in starts : a <= b
                 d  == IF s[i] = "-" THEN i + 1 ELSE i
                 e  == RunEnd(s, d)
                 e2 == IF e + 2 <= Len(s) /\ s[e + 1] = "." /\ IsDigit(s[e + 2])
                       THEN RunEnd(s, e + 2) ELSE e
             IN  SubSeq(s, i, e2)

\* try: float(clean) except ValueError: the first number in clean, or None
FloatOrFirstNumber(clean) ==
    IF FloatAccepts(clean) THEN FloatOf(clean)
    ELSE IF FirstNumber(clean) = <<>> THEN None
         ELSE FloatOf(FirstNumber(clean))

RECURSIVE IntDigits(_)
IntDigits(k) ==
    IF k < 10 THEN <<Digits[k + 1]>>
    ELSE Append(IntDigits(k \div 10), Digits[(k % 10) + 1])

RECURSIVE FracDigits(_, _)
FracDigits(num, den) ==
    IF num = 0 THEN <<>>
    ELSE <<Digits[((num * 10) \div den) + 1]>>
         \o FracDigits((num * 10) % den, den)

\* str(x) of a float x: sign, integer digits, point, fraction digits ("0" when
\* there are none)
PlainString(x) ==
    LET a    == AbsInt(x.n)
        frac == FracDigits(a % x.d, x.d)
    IN  (IF x.n < 0 THEN <<"-">> ELSE <<>>) \o IntDigits(a \div x.d) \o <<".">>
        \o (IF frac = <<>> THEN <<"0">> ELSE frac)

\* str(text)
PyStr(text) == IF text.kind = "str" THEN text.chars ELSE PlainString(text.val)

\* mutant: the point is kept as the decimal separator
MoneyClean_KeepPoint(text) ==
    Replaced(Without(PyStr(text), {"nbsp", "€", "$", " "}), ",", ".")

\* blanks and currency signs out, thousands points out, decimal comma to point
MoneyClean(text) ==
    Replaced(Without(Without(PyStr(text), {"nbsp", "€", "$", " "}), {"."}),
             ",", ".")

parse_money(text) ==
    IF text.kind = "null" THEN None ELSE FloatOrFirstNumber(MoneyClean(text))

\* blanks out, comma to point
SharesClean(text) == Replaced(Without(PyStr(text), {"nbsp", " "}), ",", ".")

parse_shares(text) ==
    IF text.kind = "null" THEN None ELSE FloatOrFirstNumber(SharesClean(text))

(***************************************************************************)
(* Trades: the dictionaries parse_trade_event returns                      *)
(***************************************************************************)
Trade(ts, side, isin, ty, shares, price, total, fee) ==
    [timestamp |-> ts, side |-> side, isin |-> isin, instrument_type |-> ty,
     shares |-> shares, price |-> price, total |-> total, fee |-> fee,
     title |-> "TEST"]

\* timestamps are <<year, tick within the year>>
TsYear(ts) == ts[1]

TsLe(s, t) == s[1] < t[1] \/ (s[1] = t[1] /\ s[2] <= t[2])

Q(k) == Rat(k, 1)

\* trades with free totals: buys carry negative, sells positive net totals
FreeTrades(tss, isins, types, buys, sells, fees) ==
    {Trade(ts, "buy", i, ty, b[1], None, b[2], f) :
        ts \in tss, i \in isins, ty \in types, b \in buys, f \in fees}
    \cup
    {Trade(ts, "sell", i, ty, s[1], None, s[2], f) :
        ts \in tss, i \in isins, ty \in types, s \in sells, f \in fees}

\* trades as the export states them: net total = -(price * shares + fee) for a
\* buy and price * shares - fee for a sell
PricedTrades(tss, isins, types, shareset, prices, fees) ==
    {Trade(ts, "buy", i, ty, sh, p, Sub(Zero, Add(Mul(p, sh), f)), f) :
        ts \in tss, i \in isins, ty \in types, sh \in shareset, p \in prices,
        f \in fees}
    \cup
    {Trade(ts, "sell", i, ty, sh, p, Sub(Mul(p, sh), f), f) :
        ts \in tss, i \in isins, ty \in types, sh \in shareset, p \in prices,
        f \in fees}

Scenarios == {"lots", "years", "fees", "types", "gaps", "pairs", "feepairs"}

ISINS == {"US0000000001", "DE000DERIV01"}

TradeSpace(sc) ==
    CASE sc = "lots" ->
           FreeTrades({<<year, 0>>, <<year, 1>>}, {"US0000000001"}, {"stock"},
                      {<<Q(0), Q(-2)>>, <<Q(1), Q(-2)>>, <<Q(2), Q(-3)>>,
                       <<Rat(3, 2), Q(-2)>>},
                      {<<Q(1), Q(4)>>, <<Q(2), Q(4)>>, <<Q(3), Q(4)>>},
                      {Zero})
      [] sc = "years" ->
           FreeTrades({<<year - 1, 0>>, <<year, 0>>, <<year + 1, 0>>},
                      {"US0000000001"}, {"stock"},
                      {<<Q(1), Q(-2)>>, <<Q(2), Q(-6)>>},
                      {<<Q(1), Q(5)>>, <<Q(2), Q(5)>>, <<Q(4), Q(5)>>},
                      {Zero})
      [] sc = "fees" ->
           FreeTrades({<<year, 0>>}, {"US0000000001"}, {"stock"},
                      {<<Q(2), Q(-2)>>, <<Q(1), Q(3)>>},
                      {<<Q(1), Q(4)>>, <<Q(3), Q(-1)>>},
                      {None, Zero, Q(1), Q(3)})
      [] sc = "types" ->
           FreeTrades({<<year, 0>>}, ISINS, {"stock", "derivative", "fund"},
                      {<<Q(1), Q(-2)>>},
                      {<<Q(1), Q(3)>>, <<Q(2), Q(1)>>},
                      {Zero})
      [] sc = "gaps" ->
           FreeTrades({<<year, 0>>}, {"DE000DERIV01"}, {"stock", "derivative"},
                      {<<None, Q(-2)>>, <<Q(1), None>>, <<Q(1), Q(-2)>>},
                      {<<None, Q(3)>>, <<Q(1), None>>, <<Q(2), Q(3)>>},
                      {Zero})
      [] sc = "pairs" ->
           PricedTrades({<<year, 0>>}, {"US0000000001"}, {"stock", "derivative"},
                        {Q(0), Rat(1, 2), Q(2)}, {Q(1), Q(3)}, {Zero})
      [] sc = "feepairs" ->
           PricedTrades({<<year, 0>>}, {"US0000000001"}, {"stock"},
                        {Q(1), Q(2)}, {Q(1), Q(3)}, {Zero, Q(2)})

(***************************************************************************)
(* Raw records: the values json.load delivers.  A mapping is the sequence  *)
(* of its <<key, value>> pairs in document order.                          *)
(***************************************************************************)
Map(items) == [kind |-> "map", items |-> items]

List(items) == [kind |-> "list", items |-> items]

\* a well-formed ISO timestamp string, given by the instant it spells
Iso(y, tick) == [kind |-> "iso", year |-> y, tick |-> tick]

EmptyMap == Map(<<>>)

EmptyStr == Str(<<>>)

IsMap(v) == v.kind = "map"

HasKey(m, key) == \E k \in 1..Len(m.items) : m.items[k][1] = key

\* m.get(key, default) of a mapping m
GetOr(m, key, default) ==
    IF HasKey(m, key)
    THEN m.items[CHOOSE k \in 1..Len(m.items) : m.items[k][1] = key][2]
    ELSE default

\* m.get(key)
Get(m, key) == GetOr(m, key, JNull)

\* bool(v)
Truthy(v) ==
    CASE v.kind = "null" -> FALSE
      [] v.kind = "str"  -> v.chars # <<>>
      [] v.kind = "num"  -> v.val.n # 0
      [] v.kind \in {"map", "list"} -> v.items # <<>>
      [] OTHER -> TRUE

\* a or b
Or(a, b) == IF Truthy(a) THEN a ELSE b

\* s.lower()
Lower(s) ==
    LET UpperCase ==
            <<"A", "B", "C", "D", "E", "F", "G", "H", "I", "J", "K", "L", "M",
              "N", "O", "P", "Q", "R", "S", "T", "U", "V", "W", "X", "Y", "Z",
              "Ä", "Ö", "Ü">>
        LowerCase ==
            <<"a", "b", "c", "d", "e", "f", "g", "h", "i", "j", "k", "l", "m",
              "n", "o", "p", "q", "r", "s", "t", "u", "v", "w", "x", "y", "z",
              "ä", "ö", "ü">>
    IN  [k \in 1..Len(s) |->
            IF \E u \in DOMAIN UpperCase : UpperCase[u] = s[k]
            THEN LowerCase[CHOOSE u \in DOMAIN UpperCase : UpperCase[u] = s[k]]
            ELSE s[k]]

\* word in s
Contains(s, word) ==
    \E i \in 1..(Len(s) - Len(word) + 1) : SubSeq(s, i, i + Len(word) - 1) = word

\* the words the extractor looks for, and those of the records of make_event
W ==
    [storniert |-> <<"s", "t", "o", "r", "n", "i", "e", "r", "t">>,
     abgebrochen |->
         <<"a", "b", "g", "e", "b", "r", "o", "c", "h", "e", "n">>,
     abgelaufen |-> <<"a", "b", "g", "e", "l", "a", "u", "f", "e", "n">>,
     executed |-> <<"e", "x", "e", "c", "u", "t", "e", "d">>,
     verkauf |-> <<"v", "e", "r", "k", "a", "u", "f">>,
     sell |-> <<"s", "e", "l", "l">>,
     kauf |-> <<"k", "a", "u", "f">>,
     buy |-> <<"b", "u", "y">>,
     Gebuehr |-> <<"G", "e", "b", "ü", "h", "r">>,
     Summe |-> <<"S", "u", "m", "m", "e">>,
     Aktien |-> <<"A", "k", "t", "i", "e", "n">>,
     Stueck |-> <<"S", "t", "ü", "c", "k">>,
     Anteile |-> <<"A", "n", "t", "e", "i", "l", "e">>,
     Aktienkurs |-> <<"A", "k", "t", "i", "e", "n", "k", "u", "r", "s">>,
     Preis |-> <<"P", "r", "e", "i", "s">>,
     Ausfuehrungskurs |->
         <<"A", "u", "s", "f", "ü", "h", "r", "u", "n", "g", "s", "k", "u", "r", "s">>,
     table |-> <<"t", "a", "b", "l", "e">>,
     stock |-> <<"s", "t", "o", "c", "k">>,
     header |-> <<"h", "e", "a", "d", "e", "r">>,
     Transaktion |->
         <<"T", "r", "a", "n", "s", "a", "k", "t", "i", "o", "n">>,
     TEST |-> <<"T", "E", "S", "T">>,
     IsinA |->
         <<"U", "S", "0", "0", "0", "0", "0", "0", "0", "0", "0", "1">>,
     IsinB |->
         <<"D", "E", "0", "0", "0", "D", "E", "R", "I", "V", "0", "1">>]

(***************************************************************************)
(* parse_trade_event: the extractor                                        *)
(***************************************************************************)
IsStr(v, chars) == v.kind = "str" /\ v.chars = chars

\* for x in v raises (v is no list, mapping or string)
IterRaises(v) == v.kind \notin {"list", "map", "str"}

\* what for x in v goes through: the items of a list, the keys of a mapping,
\* the characters of a string (each of the latter two a string)
Elements(v) ==
    CASE v.kind = "list" -> v.items
      [] v.kind = "map"  -> [k \in 1..Len(v.items) |-> Str(<<v.items[k][1]>>)]
      [] v.kind = "str"  -> [k \in 1..Len(v.chars) |-> Str(<<v.chars[k]>>)]

RECURSIVE find_instrument_type(_)
RECURSIVE FirstTypeFound(_, _)
\* the first truthy result among find_instrument_type(vals[k]), vals[k + 1], ...
FirstTypeFound(vals, k) ==
    IF k > Len(vals) THEN JNull
    ELSE LET found == find_instrument_type(vals[k])
         IN  IF Truthy(found) THEN found ELSE FirstTypeFound(vals, k + 1)

find_instrument_type(obj) ==
    IF obj.kind = "map"
    THEN IF HasKey(obj, "instrumentType") THEN Get(obj, "instrumentType")
         ELSE FirstTypeFound([k \in 1..Len(obj.items) |-> obj.items[k][2]], 1)
    ELSE IF obj.kind = "list" THEN FirstTypeFound(obj.items, 1)
         ELSE JNull

\* the locals the loops of parse_trade_event assign; raised: a statement has
\* raised (AttributeError, TypeError or ValueError)
FieldsInit ==
    [isin |-> JNull, instrument_type |-> JNull, shares |-> None,
     price |-> None, fee |-> None, total |-> None, raised |-> FALSE]

Raise(acc) == [acc EXCEPT !.raised = TRUE]

\* detail.get('displayValue', {}).get('text') or detail.get('text') raises
DisplayTextRaises(detail) ==
    IF IsMap(detail) THEN ~IsMap(GetOr(detail, "displayValue", EmptyMap))
    ELSE TRUE

DisplayText(detail) ==
    Or(Get(GetOr(detail, "displayValue", EmptyMap), "text"), Get(detail, "text"))

\* a or b for floats (None and 0.0 are falsy)
FloatOr(a, b) == IF IsNone(a) \/ a.n = 0 THEN b ELSE a

ShareTitles == {W.Aktien, W.Stueck, W.Anteile}

PriceTitles == {W.Aktienkurs, W.Preis, W.Ausfuehrungskurs}

\* one row of a nested transaction table (lines 114-123)
RowStep(acc, row) ==
    IF acc.raised THEN acc
    ELSE IF ~IsMap(row) THEN Raise(acc)
    ELSE LET rtitle  == Or(Get(row, "title"), EmptyStr)
             rdetail == GetOr(row, "detail", EmptyMap)
         IN  IF DisplayTextRaises(rdetail) THEN Raise(acc)
             ELSE LET val == DisplayText(rdetail)
                  IN  IF rtitle.kind = "str" /\ rtitle.chars \in ShareTitles
                      THEN [acc EXCEPT !.shares = parse_shares(val)]
                      ELSE IF rtitle.kind = "str" /\ rtitle.chars \in PriceTitles
                           THEN [acc EXCEPT !.price = parse_money(val)]
                           ELSE IF IsStr(rtitle, W.Summe) /\ IsNone(acc.total)
                                THEN [acc EXCEPT !.total = parse_money(val)]
                                ELSE acc

RECURSIVE Rows(_, _, _)
Rows(acc, rows, k) ==
    IF k > Len(rows) THEN acc ELSE Rows(RowStep(acc, rows[k]), rows, k + 1)

\* one section of a nested payload (lines 111-123)
InnerSectionStep(acc, s2) ==
    IF acc.raised THEN acc
    ELSE IF ~IsMap(s2) THEN Raise(acc)
    ELSE IF ~IsStr(Get(s2, "type"), W.table) THEN acc
    ELSE LET rows == GetOr(s2, "data", List(<<>>))
         IN  IF IterRaises(rows) THEN Raise(acc)
             ELSE Rows(acc, Elements(rows), 1)

RECURSIVE InnerSections(_, _, _)
InnerSections(acc, secs, k) ==
    IF k > Len(secs) THEN acc
    ELSE InnerSections(InnerSectionStep(acc, secs[k]), secs, k + 1)

IsSpace(c) == c \in {" ", "nbsp"}

IsSep(c) == c \in {".", ","}

\* t is all of a match of -?\d+[\.,]?\d*
NumberShape(t) ==
    LET b == IF t # <<>> /\ t[1] = "-" THEN Tail(t) ELSE t
    IN  /\ b # <<>>
        /\ IsDigit(b[1])
        /\ \A k \in 1..Len(b) : IsDigit(b[k]) \/ IsSep(b[k])
        /\ Cardinality({k \in 1..Len(b) : IsSep(b[k])}) <= 1

\* a match of -?\d+[\.,]?\d* can start at s[y]
StartsNumber(s, y) ==
    IF y > Len(s) THEN FALSE
    ELSE IF IsDigit(s[y]) THEN TRUE
    ELSE IF y < Len(s) THEN s[y] = "-" /\ IsDigit(s[y + 1])
    ELSE FALSE

\* the end of the longest match of -?\d+[\.,]?\d* that starts at s[y]
NumberEnd(s, y) ==
    LET d == IF s[y] = "-" THEN y + 1 ELSE y
        e == RunEnd(s, d)
    IN  IF e = Len(s) THEN e
        ELSE IF ~IsSep(s[e + 1]) THEN e
        ELSE IF e + 2 <= Len(s) /\ IsDigit(s[e + 2]) THEN RunEnd(s, e + 2)
        ELSE e + 1

\* the first position after s[x] that holds no blank
AfterSpaces(s, x) ==
    CHOOSE y \in (x + 1)..(Len(s) + 1) :
        /\ \A k \in (x + 1)..(y - 1) : IsSpace(s[k])
        /\ IF y > Len(s) THEN TRUE ELSE ~IsSpace(s[y])

\* re.search(r'(-?\d+[\.,]?\d*)\s*×\s*(-?\d+[\.,]?\d*)', s): the matches
\* <<i, j, x>>, group 1 being s[i..j] and the cross s[x]
CrossMatches(s) ==
    {m \in (1..Len(s)) \X (1..Len(s)) \X (1..Len(s)) :
        /\ m[1] <= m[2] /\ m[2] < m[3]
        /\ s[m[3]] = "×"
        /\ \A k \in (m[2] + 1)..(m[3] - 1) : IsSpace(s[k])
        /\ NumberShape(SubSeq(s, m[1], m[2]))
        /\ StartsNumber(s, AfterSpaces(s, m[3]))}

\* the leftmost match as its two groups
CrossGroups(s) ==
    LET ms == CrossMatches(s)
        m  == CHOOSE a \in ms : \A b \in ms : a[1] <= b[1]
        y  == AfterSpaces(s, m[3])
    IN  <<SubSeq(s, m[1], m[2]), SubSeq(s, y, NumberEnd(s, y))>>

\* the quick parse of a text like "1 × 156,60 €" (lines 126-131)
CrossStep(acc, detail) ==
    LET txt == IF IsMap(detail) THEN Get(detail, "text") ELSE JNull
    IN  IF ~Truthy(txt) THEN acc
        ELSE IF txt.kind # "str" THEN Raise(acc)
        ELSE IF CrossMatches(txt.chars) = {} THEN acc
        ELSE LET g == CrossGroups(txt.chars)
             IN  [acc EXCEPT
                    !.shares = FloatOr(@, parse_shares(Str(g[1]))),
                    !.price  = FloatOr(@, parse_money(Str(g[2])))]

\* the transaction block nested in the action payload of a detail (lines
\* 109-123)
NestedStep(acc, detail) ==
    IF ~IsMap(detail) THEN Raise(acc)
    ELSE LET action == Get(detail, "action")
             inner  == IF IsMap(action) THEN Get(action, "payload") ELSE JNull
         IN  IF ~IsMap(inner) THEN acc
             ELSE LET secs == GetOr(inner, "sections", List(<<>>))
                  IN  IF IterRaises(secs) THEN Raise(acc)
                      ELSE InnerSections(acc, Elements(secs), 1)

\* fee = parse_money(...) of an entry titled 'Gebühr' (lines 103-104)
FeeStep(acc, title, detail) ==
    IF ~IsStr(title, W.Gebuehr) THEN acc
    ELSE IF DisplayTextRaises(detail) THEN Raise(acc)
    ELSE [acc EXCEPT !.fee = parse_money(DisplayText(detail))]

\* total = parse_money(...) of an entry titled 'Summe' (lines 105-106)
TotalStep(acc, title, detail) ==
    IF ~IsStr(title, W.Summe) THEN acc
    ELSE IF DisplayTextRaises(detail) THEN Raise(acc)
    ELSE [acc EXCEPT !.total = parse_money(DisplayText(detail))]

\* one entry of the data of a section (lines 94-131)
EntryStep(acc, entry) ==
    IF acc.raised THEN acc
    ELSE IF ~IsMap(entry) THEN Raise(acc)
    ELSE LET title  == Or(Get(entry, "title"), EmptyStr)
             detail == GetOr(entry, "detail", EmptyMap)
             a1 == [acc EXCEPT !.instrument_type =
                      Or(Or(@, find_instrument_type(detail)),
                         find_instrument_type(entry))]
             a2 == FeeStep(a1, title, detail)
             a3 == IF a2.raised THEN a2 ELSE TotalStep(a2, title, detail)
             a4 == IF a3.raised THEN a3 ELSE NestedStep(a3, detail)
         IN  IF a4.raised THEN a4 ELSE CrossStep(a4, detail)

RECURSIVE Entries(_, _, _)
Entries(acc, data, k) ==
    IF k > Len(data) THEN acc
    ELSE Entries(EntryStep(acc, data[k]), data, k + 1)

\* mutant: the header payload is only read while isin is unset
HeaderStep_FirstWins(acc, sec) ==
    LET act     == Or(Get(sec, "action"), EmptyMap)
        payload == IF IsMap(act) THEN Get(act, "payload") ELSE JNull
    IN  IF payload.kind = "str" /\ acc.isin.kind = "null"
        THEN IF Len(payload.chars) = 12 THEN [acc EXCEPT !.isin = payload]
             ELSE acc
        ELSE acc

\* the ISIN as the payload of the header action (lines 86-89)
HeaderStep(acc, sec) ==
    LET act     == Or(Get(sec, "action"), EmptyMap)
        payload == IF IsMap(act) THEN Get(act, "payload") ELSE JNull
    IN  IF payload.kind = "str"
        THEN IF Len(payload.chars) = 12 THEN [acc EXCEPT !.isin = payload]
             ELSE acc
        ELSE acc

\* one section of the details (lines 84-131)
SectionStep(acc, sec) ==
    IF acc.raised THEN acc
    ELSE IF ~IsMap(sec) THEN Raise(acc)
    ELSE LET a1   == HeaderStep(acc, sec)
             data == Get(sec, "data")
         IN  IF data.kind # "list" THEN a1 ELSE Entries(a1, data.items, 1)

RECURSIVE Sections(_, _, _)
Sections(acc, secs, k) ==
    IF k > Len(secs) THEN acc
    ELSE Sections(SectionStep(acc, secs[k]), secs, k + 1)

\* subtitle = (ev.get('subtitle') or '').lower()
Subtitle(ev) == Lower(Or(Get(ev, "subtitle"), EmptyStr).chars)

\* mutant: the expiry keyword is not looked for
Cancelled_NoExpiry(ev) ==
    \E word \in {W.storniert, W.abgebrochen} : Contains(Subtitle(ev), word)

\* the subtitle names a cancelled or expired order (line 59)
Cancelled(ev) ==
    \E word \in {W.storniert, W.abgebrochen, W.abgelaufen} :
        Contains(Subtitle(ev), word)

\* status = (ev.get('status') or '').lower()
StatusOf(ev) == Lower(Or(Get(ev, "status"), EmptyStr).chars)

\* status and status != 'executed' (line 64)
NotExecuted(ev) == StatusOf(ev) # <<>> /\ StatusOf(ev) # W.executed

\* lines 67-72; "none": the record is no trade
SideOf(ev) ==
    LET subtitle == Subtitle(ev)
    IN  IF Contains(subtitle, W.verkauf) \/ Contains(subtitle, W.sell)
        THEN "sell"
        ELSE IF Contains(subtitle, W.kauf) \/ Contains(subtitle, W.buy)
             THEN "buy"
             ELSE "none"

\* the timestamp of a trade whose record has none
NoTimestamp == <<>>

\* datetime.fromisoformat(ts_raw.replace(...)) raises: ts_raw is a number
\* (AttributeError) or a string that is no ISO timestamp (ValueError)
TimestampRaises(ev) ==
    Truthy(Get(ev, "timestamp")) /\ Get(ev, "timestamp").kind # "iso"

TimestampOf(ev) ==
    LET ts_raw == Get(ev, "timestamp")
    IN  IF Truthy(ts_raw) THEN <<ts_raw.year, ts_raw.tick>> ELSE NoTimestamp

\* the results of parse_trade_event: None, a trade, or an exception
NoTrade == [kind |-> "none"]

Raised == [kind |-> "raised"]

Extracted(tr) == [kind |-> "trade", trade |-> tr]

\* lines 133-154: the defaults and the returned dictionary
TradeOf(ev, acc, amount_net) ==
    LET total == IF IsNone(acc.total) /\ amount_net.kind # "null"
                 THEN (IF amount_net.kind = "num" THEN amount_net.val
                       ELSE None)
                 ELSE acc.total
        fee   == IF /\ IsNone(acc.fee) /\ ~IsNone(total)
                    /\ amount_net.kind # "null" /\ SideOf(ev) = "buy"
                 THEN Zero ELSE acc.fee
    IN  [Trade(TimestampOf(ev), SideOf(ev), acc.isin,
               Or(acc.instrument_type, Str(W.stock)),
               acc.shares, acc.price, total, fee)
           EXCEPT !.title = Get(ev, "title")]

parse_trade_event(ev) ==
    IF Cancelled(ev) \/ NotExecuted(ev) \/ SideOf(ev) = "none" THEN NoTrade
    ELSE IF TimestampRaises(ev) THEN Raised
    ELSE LET amount  == GetOr(ev, "amount", EmptyMap)
             details == GetOr(ev, "details", EmptyMap)
         IN  IF ~IsMap(amount) \/ ~IsMap(details) THEN Raised
             ELSE LET amount_net == Get(amount, "value")
                      sections   == GetOr(details, "sections", List(<<>>))
                  IN  IF IterRaises(sections) THEN Raised
                      ELSE LET acc == Sections(FieldsInit, Elements(sections), 1)
                           IN  IF acc.raised THEN Raised
                               ELSE Extracted(TradeOf(ev, acc, amount_net))

(***************************************************************************)
(* load_trades                                                             *)
(***************************************************************************)
\* trades = [], nothing raised, nothing returned
LoadInit == [trades |-> <<>>, raised |-> FALSE, returned |-> FALSE]

\* t = parse_trade_event(ev) has raised, or: if t: trades.append(t) (lines
\* 166-168)
Collected(st, t) ==
    IF t.kind = "raised" THEN [st EXCEPT !.raised = TRUE]
    ELSE IF t.kind = "none" THEN st
         ELSE [st EXCEPT !.trades = Append(@, t.trade)]

\* one iteration of the loop over the events (lines 163-168)
LoadStep(st, ev) ==
    IF ~IsMap(ev) THEN st ELSE Collected(st, parse_trade_event(ev))

\* list.sort compares the keys of at least two trades, and None compares with
\* nothing: TypeError
SortRaises(list) ==
    Len(list) >= 2 /\ \E k \in 1..Len(list) : list[k].timestamp = NoTimestamp

\* tr put behind the trades of the sorted list that are not later than it
Inserted(sorted, tr) ==
    LET n == Cardinality({k \in 1..Len(sorted) :
                            TsLe(sorted[k].timestamp, tr.timestamp)})
    IN  SubSeq(sorted, 1, n) \o <<tr>> \o SubSeq(sorted, n + 1, Len(sorted))

\* trades.sort(key=lambda x: x['timestamp']) of the first k trades of a list:
\* a stable sort
RECURSIVE SortedByTimestamp(_, _)
SortedByTimestamp(list, k) ==
    IF k = 0 THEN <<>>
    ELSE IF k = 1 THEN <<list[1]>>
    ELSE Inserted(SortedByTimestamp(list, k - 1), list[k])

\* lines 169-170
SortAndReturnOf(st) ==
    IF SortRaises(st.trades) THEN [st EXCEPT !.raised = TRUE]
    ELSE [st EXCEPT !.trades = SortedByTimestamp(@, Len(@)),
                    !.returned = TRUE]

(***************************************************************************)
(* Records as the test suite builds them (make_event)                      *)
(***************************************************************************)
\* a key left out of a mapping
Absent == [kind |-> "absent"]

\* the mapping of the pairs whose value is not Absent
MapOf(pairs) == Map(SelectSeq(pairs, LAMBDA p : p[2].kind # "absent"))

\* {"text": t, "displayValue": {"text": t}}
TextDetail(chars) ==
    Map(<< <<"text", Str(chars)>>,
           <<"displayValue", Map(<< <<"text", Str(chars)>> >>)>> >>)

Entry(title, detail) ==
    MapOf(<< <<"title", Str(title)>>, <<"detail", detail>> >>)

Header(payload) ==
    Map(<< <<"type", Str(W.header)>>,
           <<"action", Map(<< <<"payload", Str(payload)>> >>)>> >>)

Table(data) == Map(<< <<"type", Str(W.table)>>, <<"data", List(data)>> >>)

\* the overview entry that carries the transaction table and the "n × p" text
Transaction(rows, chars) ==
    Entry(W.Transaktion,
          Map(<< <<"action",
                   Map(<< <<"payload",
                            Map(<< <<"sections", List(<<Table(rows)>>)>> >>)>> >>)>>,
                 <<"text", Str(chars)>> >>))

Event(timestamp, subtitle, status, amount, details) ==
    MapOf(<< <<"timestamp", timestamp>>, <<"title", Str(W.TEST)>>,
             <<"subtitle", subtitle>>, <<"status", status>>,
             <<"amount", amount>>, <<"details", details>> >>)

Amount(k) == Map(<< <<"value", Num(Q(k))>> >>)

Details(sections) == Map(<< <<"sections", sections>> >>)

(***************************************************************************)
(* avg_realized: one iteration of its loop                                 *)
(***************************************************************************)
\* fee = tr.get('fee') or 0.0
FeeOrZero(tr) == IF IsNone(tr.fee) \/ tr.fee.n = 0 THEN Zero ELSE tr.fee

\* the trade is unusable for accounting
Unusable(tr) == IsNone(tr.shares) \/ IsNone(tr.total)

InYear(tr) == TsYear(tr.timestamp) = year

CategoryWarning(tr) ==
    [kind |-> "category", isin |-> tr.isin, title |-> tr.title,
     instrument_type |-> tr.instrument_type, missing |-> Zero]

ShortageWarning(tr, missing) ==
    [kind |-> "shortage", isin |-> tr.isin, title |-> tr.title,
     instrument_type |-> "", missing |-> missing]

\* mutant: the policy warning is repeated for every non-stock trade
AvgWarnCategory_EveryTrade(st, tr) ==
    IF tr.instrument_type # "stock"
    THEN [st EXCEPT !.warnings = Append(@, CategoryWarning(tr)),
                    !.nonstock_warned = @ \cup {tr.isin}]
    ELSE st

\* the one-time policy warning for a non-stock instrument
AvgWarnCategory(st, tr) ==
    IF tr.instrument_type # "stock" /\ tr.isin \notin st.nonstock_warned
    THEN [st EXCEPT !.warnings = Append(@, CategoryWarning(tr)),
                    !.nonstock_warned = @ \cup {tr.isin}]
    ELSE st

\* mutant: the fee stays in the cost
AvgCostAdd_WithFee(tr) == AbsR(tr.total)

\* cost_add = max(0.0, abs(tr['total']) - fee)
AvgCostAdd(tr) == Max(Zero, Sub(AbsR(tr.total), FeeOrZero(tr)))

\* proceeds = tr['total'] + fee
AvgProceeds(tr) == Add(tr.total, FeeOrZero(tr))

\* mutant: the buy goes into one pool shared by all instruments
AvgBuy_SharedPool(st, tr) ==
    [st EXCEPT !.positions =
        [i \in ISINS |-> [qty  |-> Add(@[i].qty, tr.shares),
                          cost |-> Add(@[i].cost, AvgCostAdd(tr))]]]

AvgBuy(st, tr) ==
    [st EXCEPT !.positions[tr.isin] =
        [qty |-> Add(@.qty, tr.shares), cost |-> Add(@.cost, AvgCostAdd(tr))]]

\* mutant: the division by the quantity is left out
AvgCost_Total(pos) ==
    IF GtEps(pos.qty, QtyEpsInv) THEN pos.cost ELSE Zero

\* avg_cost = (pos['cost'] / pos['qty']) if pos['qty'] > 1e-9 else 0.0
AvgCost(pos) ==
    IF GtEps(pos.qty, QtyEpsInv) THEN Div(pos.cost, pos.qty) ELSE Zero

UsedQty(pos, tr) == Min(tr.shares, pos.qty)

\* mutant: the cost of the sold shares stays in the pool
AvgPoolAfterSell_KeepCost(pos, tr) ==
    LET q == Sub(pos.qty, UsedQty(pos, tr))
    IN  IF LtEps(q, QtyEpsInv) THEN [qty |-> Zero, cost |-> Zero]
        ELSE [qty |-> q, cost |-> pos.cost]

\* the pool after used_qty shares left it, snapped to zero below 1e-9
AvgPoolAfterSell(pos, tr) ==
    LET used == UsedQty(pos, tr)
        q    == Sub(pos.qty, used)
        c    == Sub(pos.cost, Mul(used, AvgCost(pos)))
    IN  IF LtEps(q, QtyEpsInv) THEN [qty |-> Zero, cost |-> Zero]
        ELSE [qty |-> q, cost |-> c]

AvgShortage(pos, tr) == GtEps(Sub(tr.shares, UsedQty(pos, tr)), WarnEpsInv)

AvgSale(pos, tr) ==
    LET cost_basis == Mul(UsedQty(pos, tr), AvgCost(pos))
    IN  [date |-> tr.timestamp, isin |-> tr.isin, title |-> tr.title,
         shares |-> tr.shares, proceeds |-> AvgProceeds(tr),
         cost_basis |-> cost_basis,
         profit |-> Sub(AvgProceeds(tr), cost_basis)]

\* the sale is added to the report
AvgReports(tr) == InYear(tr)

AvgSell(st, tr) ==
    LET pos  == st.positions[tr.isin]
        st1  == [st EXCEPT !.positions[tr.isin] = AvgPoolAfterSell(pos, tr)]
        st2  == IF AvgShortage(pos, tr)
                THEN [st1 EXCEPT !.warnings =
                        Append(@, ShortageWarning(tr, Sub(tr.shares, UsedQty(pos, tr))))]
                ELSE st1
    IN  IF AvgReports(tr)
        THEN [st2 EXCEPT !.realized_total = Add(@, AvgSale(pos, tr).profit),
                         !.per_sale = Append(@, AvgSale(pos, tr))]
        ELSE st2

\* mutant: sells outside the year are skipped before they touch the pool
avg_realized_YearFirst(st, tr) ==
    IF Unusable(tr) THEN st
    ELSE IF tr.side = "buy" THEN AvgBuy(AvgWarnCategory(st, tr), tr)
         ELSE IF ~InYear(tr) THEN AvgWarnCategory(st, tr)
              ELSE AvgSell(AvgWarnCategory(st, tr), tr)

\* mutant: the policy warning is emitted before the trade is looked at
avg_realized_WarnFirst(st, tr) ==
    IF Unusable(tr) THEN AvgWarnCategory(st, tr)
    ELSE IF tr.side = "buy" THEN AvgBuy(AvgWarnCategory(st, tr), tr)
         ELSE AvgSell(AvgWarnCategory(st, tr), tr)

avg_realized(st, tr) ==
    IF Unusable(tr) THEN st
    ELSE IF tr.side = "buy" THEN AvgBuy(AvgWarnCategory(st, tr), tr)
         ELSE AvgSell(AvgWarnCategory(st, tr), tr)

AvgInit ==
    [positions |-> [i \in ISINS |-> [qty |-> Zero, cost |-> Zero]],
     realized_total |-> Zero, per_sale |-> <<>>, warnings |-> <<>>,
     nonstock_warned |-> {}]

(***************************************************************************)
(* fifo_realized: one iteration of its loop                                *)
(***************************************************************************)
\* mutant: every sale goes to the stock total
Cat_AlwaysStock(tr) == "stock"

\* cat = 'stock' if tr['instrument_type'] == 'stock' else 'other'
Cat(tr) == IF tr.instrument_type = "stock" THEN "stock" ELSE "other"

\* positions[isin].append([shares, abs(total)])
FifoLot(tr) == [shares |-> tr.shares, cost |-> AbsR(tr.total)]

\* mutant: the lot is put at the front of the queue
FifoBuy_Front(st, tr) ==
    [st EXCEPT !.positions[tr.isin] = <<FifoLot(tr)>> \o @]

FifoBuy(st, tr) ==
    [st EXCEPT !.positions[tr.isin] = Append(@, FifoLot(tr))]

\* mutant: the fee is added back as in avg_realized
FifoProceeds_PlusFee(tr) == Add(tr.total, FeeOrZero(tr))

\* proceeds = tr['total']
FifoProceeds(tr) == tr.total

\* mutant: the year is not looked at
FifoSkipsSell_AnyYear(tr) == Unusable(tr)

\* the sell is skipped before it touches the inventory
FifoSkipsSell(tr) == ~InYear(tr) \/ Unusable(tr)

\* the while loop: consume lots from the front of the queue.  raised stands
\* for the ZeroDivisionError of lot_cost / lot_shares on a lot of 0 shares.
RECURSIVE FifoConsume(_, _, _)
FifoConsume(queue, remaining, cost_sum) ==
    IF GtEps(remaining, QtyEpsInv) /\ queue # <<>>
    THEN LET lot  == Head(queue)
             take == Min(remaining, lot.shares)
         IN  IF lot.shares.n = 0
             THEN [queue |-> queue, remaining |-> remaining,
                   cost_sum |-> cost_sum, raised |-> TRUE]
             ELSE LET cost_per_share == Div(lot.cost, lot.shares)
                      lot_shares     == Sub(lot.shares, take)
                  IN  FifoConsume(
                        IF ~GtEps(lot_shares, QtyEpsInv)
                        THEN Tail(queue)
                        ELSE <<[shares |-> lot_shares,
                                cost |-> Mul(lot_shares, cost_per_share)]>>
                             \o Tail(queue),
                        Sub(remaining, take),
                        Add(cost_sum, Mul(take, cost_per_share)))
    ELSE [queue |-> queue, remaining |-> remaining, cost_sum |-> cost_sum,
          raised |-> FALSE]

FifoShortage(remaining) == GtEps(remaining, WarnEpsInv)

FifoSale(tr, cost_sum) ==
    [date |-> tr.timestamp, isin |-> tr.isin, title |-> tr.title,
     category |-> Cat(tr), shares |-> tr.shares, proceeds |-> FifoProceeds(tr),
     cost_basis |-> cost_sum, profit |-> Sub(FifoProceeds(tr), cost_sum)]

FifoSell(st, tr) ==
    LET r    == FifoConsume(st.positions[tr.isin], tr.shares, Zero)
        sale == FifoSale(tr, r.cost_sum)
    IN  IF r.raised THEN [st EXCEPT !.raised = TRUE]
        ELSE [st EXCEPT
                !.positions[tr.isin] = r.queue,
                !.warnings = IF FifoShortage(r.remaining)
                             THEN Append(@, ShortageWarning(tr, r.remaining))
                             ELSE @,
                !.realized[Cat(tr)] = Add(@, sale.profit),
                !.per_sale = Append(@, sale)]

\* once the engine has raised it returns nothing and processes nothing more
fifo_realized(st, tr) ==
    IF st.raised THEN st
    ELSE IF tr.side = "buy"
         THEN IF Unusable(tr) THEN st ELSE FifoBuy(st, tr)
         ELSE IF FifoSkipsSell(tr) THEN st ELSE FifoSell(st, tr)

FifoInit ==
    [positions |-> [i \in ISINS |-> <<>>],
     realized |-> [c \in {"stock", "other"} |-> Zero],
     per_sale |-> <<>>, warnings |-> <<>>, raised |-> FALSE]

(***************************************************************************)
(* The state machine                                                       *)
(***************************************************************************)
\* a result not computed yet
Unset == [n |-> 0, d |-> -1]

NormInit ==
    [money |-> Unset, shares |-> Unset,
     money_again |-> Unset, shares_again |-> Unset]

\* no text is being normalised
TextIdle == raw = Str(<<>>) /\ norm = NormInit

\* no record is being extracted and no file loaded
LoadIdle ==
    /\ record = JNull /\ parsed = [kind |-> "unparsed"]
    /\ events = <<>> /\ loaded = LoadInit

Init ==
    /\ scenario \in Scenarios
    /\ trades = <<>>
    /\ avg = AvgInit
    /\ fifo = FifoInit
    /\ TextIdle
    /\ LoadIdle

\* load_trades hands the engines a list sorted by timestamp
Sorted(tr) ==
    IF trades = <<>> THEN TRUE
    ELSE TsLe(trades[Len(trades)].timestamp, tr.timestamp)

\* the lists of the two pair scenarios, which have the most trades to choose
\* from, are explored one trade shorter than the others
MaxLen(sc) == IF sc \in {"pairs", "feepairs"} THEN MaxTrades - 1 ELSE MaxTrades

Process(tr) ==
    /\ Len(trades) < MaxLen(scenario)
    /\ Sorted(tr)
    /\ trades' = Append(trades, tr)
    /\ avg' = avg_realized(avg, tr)
    /\ fifo' = fifo_realized(fifo, tr)
    /\ UNCHANGED <<scenario, textVars, loadVars>>

\* the trade lists explored, by scenario
TradeSpaces == [sc \in Scenarios |-> TradeSpace(sc)]

\* the next trade of the list is a buy
ProcessBuy == \E tr \in TradeSpaces[scenario] : tr.side = "buy" /\ Process(tr)

\* the next trade of the list is a sell
ProcessSell == \E tr \in TradeSpaces[scenario] : tr.side = "sell" /\ Process(tr)

Next == ProcessBuy \/ ProcessSell

Spec == Init /\ [][Next]_vars

(***************************************************************************)
(* The state machine of the text normalisation: a text is given, each      *)
(* parser is applied to it, and each number obtained is written as a plain *)
(* numeric string and parsed again                                          *)
(***************************************************************************)
\* no trade list is being processed
EnginesIdle ==
    scenario = "lots" /\ trades = <<>> /\ avg = AvgInit /\ fifo = FifoInit

TextChars == {"0", "5", ",", ".", "-", "€"}

Texts == UNION {[1..k -> TextChars] : k \in 0..MaxText}

TextInit ==
    /\ raw \in {Str(s) : s \in Texts}
    /\ norm = NormInit
    /\ EnginesIdle
    /\ LoadIdle

ParseMoney ==
    /\ norm.money = Unset
    /\ norm' = [norm EXCEPT !.money = parse_money(raw)]
    /\ UNCHANGED <<raw, engineVars, loadVars>>

ParseShares ==
    /\ norm.shares = Unset
    /\ norm' = [norm EXCEPT !.shares = parse_shares(raw)]
    /\ UNCHANGED <<raw, engineVars, loadVars>>

\* parse_money(str(n)) for the number n parse_money returned
ParseMoneyAgain ==
    /\ norm.money # Unset /\ ~IsNone(norm.money)
    /\ norm.money_again = Unset
    /\ norm' = [norm EXCEPT
                  !.money_again = parse_money(Str(PlainString(norm.money)))]
    /\ UNCHANGED <<raw, engineVars, loadVars>>

\* parse_shares(str(n)) for the number n parse_shares returned
ParseSharesAgain ==
    /\ norm.shares # Unset /\ ~IsNone(norm.shares)
    /\ norm.shares_again = Unset
    /\ norm' = [norm EXCEPT
                  !.shares_again = parse_shares(Str(PlainString(norm.shares)))]
    /\ UNCHANGED <<raw, engineVars, loadVars>>

TextNext == ParseMoney \/ ParseShares \/ ParseMoneyAgain \/ ParseSharesAgain

TextSpec == TextInit /\ [][TextNext]_vars

(***************************************************************************)
(* The state machine of the extractor: a record is given and               *)
(* parse_trade_event is applied to it                                      *)
(***************************************************************************)
Row(title, chars) == Entry(title, TextDetail(chars))

\* the sections make_event builds for 2 shares at 1,00 with a fee of 1,00
StandardSections ==
    <<Header(W.IsinA),
      Table(<<Transaction(<<Row(W.Aktien, <<"2">>),
                            Row(W.Aktienkurs, <<"1", ",", "0", "0">>),
                            Row(W.Summe, <<"2", ",", "0", "0">>)>>,
                          <<"2", " ", "×", " ", "1", ",", "0", "0">>),
              Row(W.Gebuehr, <<"1", ",", "0", "0">>),
              Row(W.Summe, <<"-", "3", ",", "0", "0">>)>>)>>

SubtitleChoices ==
    {Absent, JNull,
     Str(<<"K", "a", "u", "f", "o", "r", "d", "e", "r">>),
     Str(<<"V", "e", "r", "k", "a", "u", "f", "s", "o", "r", "d", "e", "r">>),
     Str(<<"K", "a", "u", "f", "o", "r", "d", "e", "r", " ", "s", "t", "o", "r", "n", "i", "e", "r", "t">>),
     Str(<<"V", "e", "r", "k", "a", "u", "f", "s", "o", "r", "d", "e", "r", " ", "A", "B", "G", "E", "L", "A", "U", "F", "E", "N">>),
     Str(<<"K", "a", "u", "f", " ", "A", "b", "g", "e", "b", "r", "o", "c", "h", "e", "n">>),
     Str(<<"D", "i", "v", "i", "d", "e", "n", "d", "e">>)}

StatusChoices ==
    {Absent, JNull, EmptyStr,
     Str(<<"E", "X", "E", "C", "U", "T", "E", "D">>),
     Str(<<"e", "x", "e", "c", "u", "t", "e", "d">>),
     Str(<<"C", "A", "N", "C", "E", "L", "E", "D">>),
     Str(<<"P", "e", "n", "d", "i", "n", "g">>)}

\* records that differ in subtitle and status, with details that parse and
\* with an amount that is null
StatusRecords ==
    {Event(Iso(year, 0), subtitle, status, amount,
           Details(List(StandardSections))) :
        subtitle \in SubtitleChoices, status \in StatusChoices,
        amount \in {Amount(-3), JNull}}

\* zero, one or two headers, the payload of one of them no ISIN
HeaderChoices ==
    {<<>>, <<Header(W.IsinA)>>, <<Header(W.IsinA), Header(W.IsinB)>>,
     <<Header(W.IsinB), Header(W.IsinA)>>, <<Header(W.IsinA), Header(W.header)>>}

\* overview entries that offer candidates: two fees, two totals, a
\* transaction with two rows each for shares, price and total, and two "n × p"
\* texts
EntryChoices ==
    {Row(W.Gebuehr, <<"1", ",", "0", "0">>),
     Row(W.Gebuehr, <<"2", ",", "0", "0">>),
     Row(W.Summe, <<"-", "3", ",", "0", "0">>),
     Row(W.Summe, <<"-", "5", ",", "0", "0">>),
     Transaction(<<Row(W.Aktien, <<"2">>),
                   Row(W.Stueck, <<"3">>),
                   Row(W.Aktienkurs, <<"1", ",", "0", "0">>),
                   Row(W.Preis, <<"4", ",", "0", "0">>),
                   Row(W.Summe, <<"6", ",", "0", "0">>),
                   Row(W.Summe, <<"7", ",", "0", "0">>)>>,
                 <<"5", " ", "×", " ", "8", ",", "0", "0">>),
     Entry(W.Transaktion, Map(<< <<"text", Str(<<"9", " ", "×", " ", "1", ",", "5", "0", " ", "€">>)>> >>))}

\* records whose overview is any list of up to MaxEntries of these entries
CandidateRecords ==
    {Event(Iso(year, 0), subtitle, Str(<<"E", "X", "E", "C", "U", "T", "E", "D">>), Amount(-9),
           Details(List(headers \o <<Table(data)>>))) :
        subtitle \in {Str(<<"K", "a", "u", "f", "o", "r", "d", "e", "r">>),
                      Str(<<"V", "e", "r", "k", "a", "u", "f", "s", "o", "r", "d", "e", "r">>)},
        headers \in HeaderChoices,
        data \in UNION {[1..k -> EntryChoices] : k \in 0..MaxEntries}}

\* parse_trade_event has not been called
Unparsed == [kind |-> "unparsed"]

ParseInit ==
    /\ record \in StatusRecords \cup CandidateRecords
    /\ parsed = Unparsed
    /\ events = <<>> /\ loaded = LoadInit
    /\ EnginesIdle
    /\ TextIdle

ParseTradeEvent ==
    /\ parsed = Unparsed
    /\ parsed' = parse_trade_event(record)
    /\ UNCHANGED <<record, events, loaded, engineVars, textVars>>

ParseNext == ParseTradeEvent

ParseSpec == ParseInit /\ [][ParseNext]_vars

(***************************************************************************)
(* The state machine of load_trades: one iteration of its loop per event   *)
(* of the file, then the sort                                              *)
(***************************************************************************)
\* the events of the file: trades at two instants, a cancelled order, values
\* that are no mappings, and records with a part missing, null or misshapen
LoadChoices ==
    \* a record like those of make_event but for one part
    LET Damaged(timestamp, amount, details) ==
            Event(timestamp, Str(<<"K", "a", "u", "f", "o", "r", "d", "e", "r">>),
                  Str(<<"E", "X", "E", "C", "U", "T", "E", "D">>), amount, details)
    IN  {Event(Iso(year, 1), Str(<<"K", "a", "u", "f", "o", "r", "d", "e", "r">>),
               Str(<<"E", "X", "E", "C", "U", "T", "E", "D">>), Amount(-3), Details(List(StandardSections))),
         Event(Iso(year, 0), Str(<<"V", "e", "r", "k", "a", "u", "f", "s", "o", "r", "d", "e", "r">>),
               Str(<<"E", "X", "E", "C", "U", "T", "E", "D">>), Amount(4), Details(List(StandardSections))),
         Event(Iso(year, 1), Str(<<"V", "e", "r", "k", "a", "u", "f", "s", "o", "r", "d", "e", "r">>),
               Str(<<"E", "X", "E", "C", "U", "T", "E", "D">>), Amount(5), Details(List(StandardSections))),
         Event(Iso(year, 0), Str(<<"K", "a", "u", "f", "o", "r", "d", "e", "r", " ", "s", "t", "o", "r", "n", "i", "e", "r", "t">>),
               Str(<<"E", "X", "E", "C", "U", "T", "E", "D">>), Amount(-3), Details(List(StandardSections))),
         Str(<<"x">>),
         Damaged(Absent, Amount(-3), Details(List(StandardSections))),
         Damaged(Str(<<"g", "e", "s", "t", "e", "r", "n">>), Amount(-3), Details(List(StandardSections))),
         Damaged(Iso(year, 0), Absent, Absent),
         Damaged(Iso(year, 0), JNull, Details(List(StandardSections))),
         Damaged(Iso(year, 0), Amount(-3), JNull),
         Damaged(Iso(year, 0), Amount(-3), Details(JNull)),
         Damaged(Iso(year, 0), Amount(-3), Details(List(<<Str(<<"x">>)>>))),
         Damaged(Iso(year, 0), Amount(-3),
                 Details(List(<<Table(<<Str(<<"x">>)>>)>>))),
         Damaged(Iso(year, 0), Amount(-3),
                 Details(List(<<Table(<<Entry(W.Summe, JNull)>>)>>))),
         Damaged(Iso(year, 0), Amount(-3),
                 Details(List(<<Table(<<Entry(W.Summe, Absent)>>)>>)))}

LoadTradesInit ==
    /\ events = <<>>
    /\ loaded = LoadInit
    /\ record = JNull /\ parsed = Unparsed
    /\ EnginesIdle
    /\ TextIdle

\* the loop reads the next event of the file
LoadEvent ==
    \E ev \in LoadChoices :
        /\ ~loaded.raised /\ ~loaded.returned
        /\ Len(events) < MaxEvents
        /\ events' = Append(events, ev)
        /\ loaded' = LoadStep(loaded, ev)
        /\ UNCHANGED <<record, parsed, engineVars, textVars>>

\* the file is read: sort and return
SortAndReturn ==
    /\ ~loaded.raised /\ ~loaded.returned
    /\ loaded' = SortAndReturnOf(loaded)
    /\ UNCHANGED <<events, record, parsed, engineVars, textVars>>

LoadNext == LoadEvent \/ SortAndReturn

LoadSpec == LoadTradesInit /\ [][LoadNext]_vars

(***************************************************************************)
(* Vocabulary of the properties                                            *)
(***************************************************************************)
\* the engines treat the trade as a sell of the target year they can account
Reportable(tr) == tr.side = "sell" /\ InYear(tr) /\ ~Unusable(tr)

\* the step processed a sell that fifo_realized reported
FifoReported == Len(fifo'.per_sale) = Len(fifo.per_sale) + 1

\* the step processed a sell that avg_realized reported
AvgReported == Len(avg'.per_sale) = Len(avg.per_sale) + 1

LastSale(st) == st.per_sale[Len(st.per_sale)]

RECURSIVE SumShares(_, _)
SumShares(q, j) == IF j = 0 THEN Zero ELSE Add(SumShares(q, j - 1), q[j].shares)

RECURSIVE SumCost(_, _)
SumCost(q, j) == IF j = 0 THEN Zero ELSE Add(SumCost(q, j - 1), q[j].cost)

\* oldest-first reference: what lot j gives to a sell of qty shares when every
\* lot before it has to be used up first
RefTake(q, j, qty) ==
    Max(Zero, Min(q[j].shares, Sub(qty, SumShares(q, j - 1))))

RECURSIVE RefCost(_, _, _)
RefCost(q, j, qty) ==
    IF j = 0 THEN Zero
    ELSE Add(RefCost(q, j - 1, qty),
             IF RefTake(q, j, qty).n = 0 THEN Zero
             ELSE Mul(RefTake(q, j, qty), Div(q[j].cost, q[j].shares)))

\* the usable buys of an instrument, in list order
BuysOf(isin) ==
    SelectSeq(trades, LAMBDA t : t.side = "buy" /\ t.isin = isin /\ ~Unusable(t))

\* the list is in timestamp order
TradesSorted ==
    \A a, b \in 1..Len(trades) :
        a <= b => TsLe(trades[a].timestamp, trades[b].timestamp)

\* while the engine runs, every queue holds the most recent buys of its
\* instrument, oldest first, the front lot possibly reduced at unchanged cost
\* per share
QueuesInAcquisitionOrder ==
    fifo.raised \/ \A i \in ISINS :
        LET q == fifo.positions[i]
            b == BuysOf(i)
            k == Len(b) - Len(q)
        IN  /\ k >= 0
            /\ \A j \in 2..Len(q) : q[j] = FifoLot(b[k + j])
            /\ Len(q) > 0 =>
                 /\ Le(q[1].shares, b[k + 1].shares)
                 /\ Mul(q[1].cost, b[k + 1].shares)
                      = Mul(q[1].shares, AbsR(b[k + 1].total))

(***************************************************************************)
(* C1  fifo_realized consumes lots oldest first                            *)
(***************************************************************************)
C1_Step ==
    LET tr == trades'[Len(trades')]
        q  == fifo.positions[tr.isin]
        q2 == fifo'.positions[tr.isin]
        k  == Len(q) - Len(q2)
    IN  FifoReported =>
          /\ LastSale(fifo').cost_basis = RefCost(q, Len(q), tr.shares)
          /\ k >= 0
          /\ \A j \in 1..k : RefTake(q, j, tr.shares) = q[j].shares
          /\ \A j \in (k + 2)..Len(q) :
                RefTake(q, j, tr.shares) = Zero /\ q2[j - k] = q[j]
          /\ k < Len(q) =>
                /\ q2[1].shares = Sub(q[k + 1].shares, RefTake(q, k + 1, tr.shares))
                /\ q2[1].shares.n > 0 =>
                     q2[1].cost = Mul(q2[1].shares,
                                      Div(q[k + 1].cost, q[k + 1].shares))

\* C1: every sell fifo_realized processes takes its shares from the queue of
\* its instrument oldest lot first: a lot gives shares only when every lot
\* bought before it is used up, the cost_basis is the sum over the lots of
\* take * (lot cost / lot quantity), and the queue always lists the remaining
\* buys in acquisition (timestamp) order.
C1_FifoOldestFirst ==
    [][C1_Step /\ TradesSorted' /\ QueuesInAcquisitionOrder']_vars

\* buy 1 for 2, buy 2 for 3, sell 2: the sell spans both lots, cost basis
\* 2 + 1 * 3/2
C1_Witness ==
    /\ Len(trades) = 3
    /\ trades[1].side = "buy" /\ trades[1].shares = Q(1)
    /\ trades[2].side = "buy" /\ trades[2].shares = Q(2)
    /\ trades[2].timestamp # trades[1].timestamp
    /\ trades[3].side = "sell" /\ trades[3].shares = Q(2)
    /\ Len(fifo.per_sale) = 1
    /\ fifo.per_sale[1].cost_basis = Rat(7, 2)
    /\ fifo.positions[trades[3].isin] = <<[shares |-> Q(1), cost |-> Rat(3, 2)]>>

(***************************************************************************)
(* C2  avg_realized keeps the moving average                               *)
(***************************************************************************)
\* the usable trades of an instrument, in list order
UsableOf(isin) == SelectSeq(trades, LAMBDA t : t.isin = isin /\ ~Unusable(t))

RECURSIVE SumBought(_, _)
SumBought(b, j) == IF j = 0 THEN Zero ELSE Add(SumBought(b, j - 1), b[j].shares)

RECURSIVE SumAdded(_, _)
SumAdded(b, j) == IF j = 0 THEN Zero ELSE Add(SumAdded(b, j - 1), AvgCostAdd(b[j]))

\* after buys only, the pool holds the summed shares and the summed added
\* costs, so its average cost is their quotient
C2_AfterBuys ==
    \A i \in ISINS :
        LET u   == UsableOf(i)
            pos == avg.positions[i]
        IN  (\A j \in 1..Len(u) : u[j].side = "buy") =>
              /\ pos.qty = SumBought(u, Len(u))
              /\ pos.cost = SumAdded(u, Len(u))
              /\ pos.qty.n > 0 =>
                   AvgCost(pos) = Div(SumAdded(u, Len(u)), SumBought(u, Len(u)))

\* a sell that leaves shares in the pool leaves the average cost as it was and
\* takes its cost basis at that average
C2_SellStep ==
    LET tr   == trades'[Len(trades')]
        pos  == avg.positions[tr.isin]
        pos2 == avg'.positions[tr.isin]
    IN  (tr.side = "sell" /\ ~Unusable(tr) /\ pos2.qty.n # 0) =>
          /\ pos.qty.n > 0
          /\ Div(pos2.cost, pos2.qty) = Div(pos.cost, pos.qty)
          /\ AvgReported =>
               LastSale(avg').cost_basis = Mul(tr.shares, Div(pos.cost, pos.qty))

\* C2: in avg_realized the pool's average cost after a run of buys of one
\* instrument is the sum of the costs they added over the sum of their shares,
\* and a sell that leaves a non-zero quantity leaves that average unchanged and
\* has cost_basis = sold shares * that average.
C2_AvgCostKept == []C2_AfterBuys /\ [][C2_SellStep]_vars

\* buy 1 for 2, buy 2 for 3 (average 5/3), sell 1: pool 2 shares at 10/3
C2_Witness ==
    /\ Len(trades) = 3
    /\ trades[1].side = "buy" /\ trades[2].side = "buy"
    /\ trades[3].side = "sell"
    /\ avg.positions[trades[3].isin] = [qty |-> Q(2), cost |-> Rat(10, 3)]
    /\ Len(avg.per_sale) = 1
    /\ avg.per_sale[1].cost_basis = Rat(5, 3)

(***************************************************************************)
(* C3  avg_realized: a sell outside the year still moves the inventory     *)
(***************************************************************************)
\* the same sell, dated in the target year
InYearTwin(tr) == [tr EXCEPT !.timestamp = <<year, 0>>]

C3_Step ==
    LET tr == trades'[Len(trades')]
    IN  (tr.side = "sell" /\ ~Unusable(tr) /\ ~InYear(tr)) =>
          /\ avg'.per_sale = avg.per_sale
          /\ avg'.realized_total = avg.realized_total
          /\ avg'.positions = avg_realized(avg, InYearTwin(tr)).positions
          /\ avg'.positions[tr.isin] = AvgPoolAfterSell(avg.positions[tr.isin], tr)

\* C3: in avg_realized a sell dated outside `year` adds nothing to per_sale or
\* realized_total but reduces the pool of its instrument exactly as the same
\* sell dated in `year` would, so later sells are costed from what it left.
C3_AvgOutOfYearSell == [][C3_Step]_vars

\* buy 2 for 6 and sell 1 in the year before, then sell 2 in the year: only
\* one share is left to cover it (cost basis 3, one share short)
C3_Witness ==
    /\ Len(trades) = 3
    /\ trades[1].side = "buy" /\ trades[1].shares = Q(2)
    /\ trades[2].side = "sell" /\ trades[2].shares = Q(1) /\ ~InYear(trades[2])
    /\ trades[3].side = "sell" /\ trades[3].shares = Q(2) /\ InYear(trades[3])
    /\ Len(avg.per_sale) = 1
    /\ avg.per_sale[1].cost_basis = Q(3)
    /\ avg.realized_total = Q(2)
    /\ Len(avg.warnings) = 1

(***************************************************************************)
(* C4, C5  fifo_realized and sells outside the year                        *)
(***************************************************************************)
C4_Step ==
    LET tr == trades'[Len(trades')]
    IN  (tr.side = "sell" /\ ~InYear(tr)) => fifo' = fifo

C5_Step ==
    LET tr == trades'[Len(trades')]
    IN  (tr.side = "sell" /\ ~Unusable(tr) /\ TsYear(tr.timestamp) < year
         /\ ~fifo.raised) =>
          /\ fifo'.per_sale = fifo.per_sale
          /\ fifo'.positions[tr.isin]
               = FifoConsume(fifo.positions[tr.isin], tr.shares, Zero).queue

\* C5: in fifo_realized a sell dated in a year before `year` is not reported
\* but consumes the lots of its instrument, so a later sell in `year` is costed
\* from the lots left after every earlier sell.
C5_FifoPriorYearSellConsumes == [][C5_Step]_vars

(***************************************************************************)
(* C6  a sell beyond the tracked inventory                                 *)
(***************************************************************************)
GrewByShortage(w, w2, tr) ==
    /\ Len(w2) > Len(w)
    /\ SubSeq(w2, 1, Len(w)) = w
    /\ w2[Len(w2)].kind = "shortage"
    /\ w2[Len(w2)].isin = tr.isin

C6_AvgStep ==
    LET tr  == trades'[Len(trades')]
        pos == avg.positions[tr.isin]
    IN  (Reportable(tr) /\ Lt(pos.qty, tr.shares)) =>
          /\ GrewByShortage(avg.warnings, avg'.warnings, tr)
          /\ AvgReported
          /\ LastSale(avg').cost_basis = Mul(pos.qty, AvgCost(pos))
          /\ LastSale(avg').profit = Sub(LastSale(avg').proceeds,
                                         Mul(pos.qty, AvgCost(pos)))

C6_FifoStep ==
    LET tr == trades'[Len(trades')]
        q  == fifo.positions[tr.isin]
    IN  (Reportable(tr) /\ ~fifo.raised /\ Lt(SumShares(q, Len(q)), tr.shares)) =>
          /\ ~fifo'.raised
          /\ GrewByShortage(fifo.warnings, fifo'.warnings, tr)
          /\ FifoReported
          /\ LastSale(fifo').cost_basis = RefCost(q, Len(q), tr.shares)
          /\ fifo'.positions[tr.isin] = <<>>

\* C6: in both engines a sell of the target year for more shares than the
\* instrument's tracked inventory appends a shortage warning, is still reported
\* as one per_sale entry without aborting the run, and is costed from the
\* covered shares only.
C6_ShortageSellReported == [][C6_AvgStep /\ C6_FifoStep]_vars

(***************************************************************************)
(* C7, C8  a buy and a sell of one instrument, starting without inventory  *)
(***************************************************************************)
\* the list is a buy and then a sell of the same instrument, both in the target
\* year and stated as the export states them for price, shares and fee, the
\* buy covering the sell
PairRun ==
    /\ Len(trades) = 2
    /\ trades[1].side = "buy" /\ trades[2].side = "sell"
    /\ trades[1].isin = trades[2].isin
    /\ InYear(trades[1]) /\ InYear(trades[2])
    /\ \A k \in 1..2 :
          /\ ~IsNone(trades[k].price) /\ ~IsNone(trades[k].shares)
          /\ ~IsNone(trades[k].fee) /\ trades[k].fee.n >= 0
    /\ trades[1].total
         = Sub(Zero, Add(Mul(trades[1].price, trades[1].shares), trades[1].fee))
    /\ trades[2].total
         = Sub(Mul(trades[2].price, trades[2].shares), trades[2].fee)
    /\ Le(trades[2].shares, trades[1].shares)

ZeroFees == trades[1].fee = Zero /\ trades[2].fee = Zero

\* sell.shares * (sell.price - buy.price)
PairProfit == Mul(trades[2].shares, Sub(trades[2].price, trades[1].price))

PairSales ==
    /\ Len(avg.per_sale) = 1
    /\ avg.per_sale[1].profit = PairProfit
    /\ ~fifo.raised
    /\ Len(fifo.per_sale) = 1
    /\ fifo.per_sale[1].profit = PairProfit
    /\ avg.realized_total = fifo.realized[Cat(trades[2])]

\* C7 as stated: each engine reports the one sale at profit
\* sell.shares * (sell.price - buy.price) and neither emits any warning.
C7_PairNoWarnings ==
    (PairRun /\ ZeroFees) =>
        PairSales /\ avg.warnings = <<>> /\ fifo.warnings = <<>>

\* C7 (amended): each engine reports the one sale at profit
\* sell.shares * (sell.price - buy.price), so both report the same profit;
\* fifo_realized emits no warning and avg_realized no shortage warning; the
\* only warning of avg_realized is the category-policy warning, emitted once
\* exactly when a trade of the pair is not of category "stock".
C7_PairProfit ==
    (PairRun /\ ZeroFees) =>
        /\ PairSales
        /\ fifo.warnings = <<>>
        /\ \A k \in 1..Len(avg.warnings) : avg.warnings[k].kind = "category"
        /\ Len(avg.warnings) =
             IF \E k \in 1..2 : trades[k].instrument_type # "stock" THEN 1 ELSE 0

\* buy 2 at 1, sell 1/2 at 3, a derivative: profit 1 in both engines, and the
\* category warning of avg_realized
C7_Witness ==
    /\ PairRun /\ ZeroFees
    /\ trades[1].instrument_type = "derivative"
    /\ trades[1].shares = Q(2) /\ trades[1].price = Q(1)
    /\ trades[2].shares = Rat(1, 2) /\ trades[2].price = Q(3)
    /\ avg.per_sale[1].profit = Q(1)
    /\ fifo.per_sale[1].profit = Q(1)
    /\ Len(avg.warnings) = 1

\* what the trade names as fee, None read as no fee
StatedFee(tr) == IF IsNone(tr.fee) THEN Zero ELSE tr.fee

C8_Step ==
    LET tr   == trades'[Len(trades')]
        pos  == avg.positions[tr.isin]
        pos2 == avg'.positions[tr.isin]
        net  == Sub(AbsR(tr.total), StatedFee(tr))
    IN  /\ (tr.side = "buy" /\ ~Unusable(tr)) =>
              /\ pos2.cost = Add(pos.cost, IF net.n < 0 THEN Zero ELSE net)
              /\ pos2.qty = Add(pos.qty, tr.shares)
        /\ (tr.side = "sell" /\ AvgReported) =>
              LastSale(avg').proceeds = Add(tr.total, StatedFee(tr))

C8_Pair ==
    PairRun =>
        /\ Len(avg.per_sale) = 1
        /\ avg.per_sale[1].profit = PairProfit
        /\ avg.realized_total = PairProfit

\* C8: avg_realized keeps fees out of cost and proceeds: a buy adds
\* max(0, |total| - fee) to the pool cost, a sell's proceeds are total + fee,
\* and for a buy with net total -(p*s + f) and a covered sell with net total
\* p'*s' - f' the profit is s' * (p' - p), that of the same trades without
\* fees, for all fees f, f' >= 0.
C8_AvgFeesExcluded == []C8_Pair /\ [][C8_Step]_vars

\* buy 2 at 1 with fee 2 (total -4), sell 1 at 3 with fee 2 (total 1): profit 2
C8_Witness ==
    /\ PairRun
    /\ trades[1].fee = Q(2) /\ trades[1].total = Q(-4)
    /\ trades[2].fee = Q(2) /\ trades[2].total = Q(1)
    /\ avg.per_sale[1].proceeds = Q(3)
    /\ avg.per_sale[1].cost_basis = Q(1)
    /\ avg.per_sale[1].profit = Q(2)

(***************************************************************************)
(* C9  fifo_realized never reads the fee                                   *)
(***************************************************************************)
FeeValues == {None, Zero, Q(1), Q(2), Q(3)}

C9_Step ==
    LET tr == trades'[Len(trades')]
        q  == fifo.positions[tr.isin]
    IN  /\ \A f \in FeeValues : fifo_realized(fifo, [tr EXCEPT !.fee = f]) = fifo'
        /\ (tr.side = "buy" /\ ~Unusable(tr) /\ ~fifo.raised) =>
              fifo'.positions[tr.isin]
                = Append(q, [shares |-> tr.shares, cost |-> AbsR(tr.total)])
        /\ FifoReported => LastSale(fifo').proceeds = tr.total

\* C9: the fee of a trade never influences fifo_realized: a buy appends a lot
\* of cost |total|, a sell's proceeds are its total, and the step the engine
\* takes on a trade is the step it takes on the same trade with any other fee,
\* so runs over lists that differ only in fees end in the same totals,
\* per_sale and warnings.
C9_FifoIgnoresFee == [][C9_Step]_vars

\* buy 2 for 2 with fee 3, sell 1 for 4 with fee 1: proceeds 4, cost basis 1
C9_Witness ==
    /\ Len(trades) = 2
    /\ trades[1].side = "buy" /\ trades[1].fee = Q(3)
    /\ trades[2].side = "sell" /\ trades[2].fee = Q(1)
    /\ trades[2].total = Q(4)
    /\ Len(fifo.per_sale) = 1
    /\ fifo.per_sale[1].proceeds = Q(4)
    /\ fifo.per_sale[1].cost_basis = Q(1)
    /\ fifo.per_sale[1].profit = Q(3)

(***************************************************************************)
(* C10  the two totals of fifo_realized                                    *)
(***************************************************************************)
C10_Step ==
    LET tr     == trades'[Len(trades')]
        bucket == IF tr.instrument_type = "stock" THEN "stock" ELSE "other"
        rest   == IF tr.instrument_type = "stock" THEN "other" ELSE "stock"
    IN  /\ FifoReported =>
              /\ fifo'.realized[bucket]
                   = Add(fifo.realized[bucket], LastSale(fifo').profit)
              /\ fifo'.realized[rest] = fifo.realized[rest]
              /\ LastSale(fifo').category = bucket
        /\ ~FifoReported => fifo'.realized = fifo.realized
        /\ \A k \in 1..Len(fifo'.warnings) : fifo'.warnings[k].kind = "shortage"
        /\ Len(fifo'.warnings) > Len(fifo.warnings) =>
              /\ FifoReported
              /\ Lt(SumShares(fifo.positions[tr.isin],
                              Len(fifo.positions[tr.isin])), tr.shares)

\* C10: fifo_realized adds the profit of each reported sell to exactly one
\* total, realized['stock'] for category "stock" and realized['other'] for
\* every other category, leaves the other total unchanged, and emits no
\* warning on account of the category (its only warnings are shortages).
C10_FifoTwoTotals == [][C10_Step]_vars

\* a derivative bought for 2 and sold for 3: the profit of 1 is in
\* realized['other'] alone, and there is no warning
C10_Witness ==
    /\ Len(fifo.per_sale) = 1
    /\ fifo.per_sale[1].category = "other"
    /\ fifo.realized["other"] = Q(1)
    /\ fifo.realized["stock"] = Zero
    /\ fifo.warnings = <<>>
    /\ trades[Len(trades)].side = "sell"
    /\ trades[Len(trades)].instrument_type = "derivative"

(***************************************************************************)
(* C11  avg_realized: one policy warning per instrument, one total         *)
(***************************************************************************)
RECURSIVE SumProfit(_, _)
SumProfit(s, j) == IF j = 0 THEN Zero ELSE Add(SumProfit(s, j - 1), s[j].profit)

\* the processed trades of an instrument whose category is not "stock"
NonStockOf(isin) ==
    SelectSeq(trades, LAMBDA t : t.isin = isin /\ ~Unusable(t)
                                 /\ t.instrument_type # "stock")

CategoryWarningsOf(w, isin) ==
    SelectSeq(w, LAMBDA x : x.kind = "category" /\ x.isin = isin)

\* one warning for an instrument with a non-stock trade, naming the category
\* of the first such trade, and none for any other instrument
C11_OncePerInstrument ==
    \A i \in ISINS :
        CategoryWarningsOf(avg.warnings, i)
          = IF NonStockOf(i) = <<>> THEN <<>>
            ELSE <<CategoryWarning(NonStockOf(i)[1])>>

\* realized_total is the sum of the profits of all reported sells
C11_SingleTotal ==
    avg.realized_total = SumProfit(avg.per_sale, Len(avg.per_sale))

C11_Step ==
    LET tr    == trades'[Len(trades')]
        first == /\ ~Unusable(tr) /\ tr.instrument_type # "stock"
                 /\ NonStockOf(tr.isin) = <<>>
        w     == avg.warnings
        w2    == avg'.warnings
    IN  /\ first =>
              /\ Len(w2) > Len(w)
              /\ w2[Len(w) + 1] = CategoryWarning(tr)
        /\ ~first =>
              \A k \in (Len(w) + 1)..Len(w2) : w2[k].kind # "category"
        /\ AvgReported =>
              avg'.realized_total
                = Add(avg.realized_total, LastSale(avg').profit)
        /\ ~AvgReported => avg'.realized_total = avg.realized_total

\* C11: in avg_realized every instrument with at least one processed trade of
\* a category other than "stock" gets exactly one category-policy warning,
\* emitted at the first such trade and at no later trade of the instrument,
\* and the profits of stock and non-stock sells are summed into the one
\* realized_total.
C11_AvgOneWarningOneTotal ==
    [](C11_OncePerInstrument /\ C11_SingleTotal) /\ [][C11_Step]_vars

\* a derivative is bought for 2 and sold (as a fund) for 3, then a stock of the
\* other instrument is sold for 3: one warning for the first instrument, and
\* both profits (1 and 3) in realized_total
C11_Witness ==
    /\ Len(trades) = 3
    /\ trades[1].side = "buy" /\ trades[1].instrument_type = "derivative"
    /\ trades[2].side = "sell" /\ trades[2].instrument_type = "fund"
    /\ trades[2].isin = trades[1].isin
    /\ trades[3].side = "sell" /\ trades[3].instrument_type = "stock"
    /\ trades[3].isin # trades[1].isin
    /\ Len(CategoryWarningsOf(avg.warnings, trades[1].isin)) = 1
    /\ CategoryWarningsOf(avg.warnings, trades[3].isin) = <<>>
    /\ Len(avg.per_sale) = 2
    /\ avg.realized_total = Q(4)

(***************************************************************************)
(* C12  avg_realized skips a trade without shares or total                 *)
(***************************************************************************)
C12_Step ==
    LET tr == trades'[Len(trades')]
    IN  (IsNone(tr.shares) \/ IsNone(tr.total)) =>
          /\ avg'.positions = avg.positions
          /\ avg'.realized_total = avg.realized_total
          /\ avg'.per_sale = avg.per_sale
          /\ avg'.warnings = avg.warnings
          /\ avg'.nonstock_warned = avg.nonstock_warned

\* C12: avg_realized skips a trade, buy or sell and of any category, whose
\* shares or total is absent: positions, realized_total, per_sale and warnings
\* (the record of instruments already warned about included) stay unchanged.
C12_AvgSkipsUnusable == [][C12_Step]_vars

\* a derivative buy without shares and a derivative sell without total leave
\* the engine in its initial state; the complete sell after them is the first
\* trade to be warned about and reported
C12_Witness ==
    /\ Len(trades) = 3
    /\ trades[1].side = "buy" /\ IsNone(trades[1].shares)
    /\ trades[1].instrument_type = "derivative"
    /\ trades[2].side = "sell" /\ IsNone(trades[2].total)
    /\ trades[2].instrument_type = "derivative"
    /\ trades[3].side = "sell" /\ ~Unusable(trades[3])
    /\ trades[3].instrument_type = "derivative"
    /\ Len(avg.per_sale) = 1
    /\ Len(avg.warnings) = 2
    /\ avg.warnings[1] = CategoryWarning(trades[3])
    /\ avg.positions = AvgInit.positions

(***************************************************************************)
(* C13  both engines keep their inventory per instrument                   *)
(***************************************************************************)
\* the trades of one instrument, in list order
TradesOf(isin) == SelectSeq(trades, LAMBDA t : t.isin = isin)

SalesOf(s, isin) == SelectSeq(s, LAMBDA x : x.isin = isin)

\* avg_realized run on the first j trades of a list
RECURSIVE AvgRun(_, _)
AvgRun(list, j) ==
    IF j = 0 THEN AvgInit ELSE avg_realized(AvgRun(list, j - 1), list[j])

\* fifo_realized run on the first j trades of a list
RECURSIVE FifoRun(_, _)
FifoRun(list, j) ==
    IF j = 0 THEN FifoInit ELSE fifo_realized(FifoRun(list, j - 1), list[j])

C13_Step ==
    LET tr == trades'[Len(trades')]
    IN  \A i \in ISINS \ {tr.isin} :
            /\ avg'.positions[i] = avg.positions[i]
            /\ fifo'.positions[i] = fifo.positions[i]

\* the position of an instrument and the sales reported for it are those of a
\* run over the trades of that instrument alone
C13_OwnTradesOnly ==
    \A i \in ISINS :
        LET own == TradesOf(i)
            a   == AvgRun(own, Len(own))
            f   == FifoRun(own, Len(own))
        IN  /\ avg.positions[i] = a.positions[i]
            /\ SalesOf(avg.per_sale, i) = a.per_sale
            /\ ~fifo.raised =>
                  /\ fifo.positions[i] = f.positions[i]
                  /\ SalesOf(fifo.per_sale, i) = f.per_sale

\* C13: both engines track inventory per instrument id: a buy or sell of one
\* instrument leaves the pool and the lot queue of every other instrument
\* unchanged, so the position of an instrument and the cost basis of each of
\* its sells are those of a run over the trades of that instrument alone.
C13_PerInstrument == []C13_OwnTradesOnly /\ [][C13_Step]_vars

\* one instrument is bought for 2, the other is sold (nothing to cover it,
\* cost basis 0), then the first is sold at cost basis 2: its pool and its
\* lot were untouched by the sell of the other
C13_Witness ==
    /\ Len(trades) = 3
    /\ trades[1].side = "buy"
    /\ trades[2].side = "sell" /\ trades[2].isin # trades[1].isin
    /\ trades[3].side = "sell" /\ trades[3].isin = trades[1].isin
    /\ trades[3].shares = trades[1].shares
    /\ Len(avg.per_sale) = 2 /\ Len(fifo.per_sale) = 2
    /\ avg.per_sale[1].cost_basis = Zero /\ fifo.per_sale[1].cost_basis = Zero
    /\ avg.per_sale[2].cost_basis = Q(2) /\ fifo.per_sale[2].cost_basis = Q(2)

(***************************************************************************)
(* C14  what load_trades returns                                           *)
(***************************************************************************)
Last(s) == s[Len(s)]

\* the values f(x) of the elements x of s that satisfy Test, in order
Picked(s, Test(_), f(_)) ==
    LET chosen == SelectSeq(s, Test)
    IN  [k \in 1..Len(chosen) |-> f(chosen[k])]

\* the trades parse_trade_event makes of the events read, in the order of the
\* file
AcceptedOf(file) ==
    Picked(file,
           LAMBDA ev : IsMap(ev) /\ parse_trade_event(ev).kind = "trade",
           LAMBDA ev : parse_trade_event(ev).trade)

\* the call is over: load_trades returned or raised
Finished == loaded.returned \/ loaded.raised

\* the trades of list that carry the timestamp of tr, in order
WithTimestampOf(list, tr) ==
    SelectSeq(list, LAMBDA other : other.timestamp = tr.timestamp)

\* result holds the trades of accepted in ascending order of timestamp, those
\* of one timestamp in their order in accepted
StablySorted(result, accepted) ==
    /\ Len(result) = Len(accepted)
    /\ \A i, j \in 1..Len(result) :
           i < j => TsLe(result[i].timestamp, result[j].timestamp)
    /\ \A k \in 1..Len(accepted) :
           WithTimestampOf(result, accepted[k]) =
               WithTimestampOf(accepted, accepted[k])

\* C14: load_trades returns exactly the trades the extractor accepted
\* (records that are no mappings and rejected records dropped, at most one
\* trade per record), ascending by timestamp, trades of equal timestamp in
\* their input order.
C14_ReturnsAcceptedSorted ==
    Finished => /\ loaded.returned
                /\ StablySorted(loaded.trades, AcceptedOf(events))

(***************************************************************************)
(* C15  parse_trade_event rejects cancelled and unexecuted orders          *)
(***************************************************************************)
\* the subtitles of the records explored that hold a cancellation or expiry
\* keyword in some case
CancellingSubtitles ==
    {Str(<<"K", "a", "u", "f", "o", "r", "d", "e", "r", " ", "s", "t", "o", "r", "n", "i", "e", "r", "t">>),
     Str(<<"V", "e", "r", "k", "a", "u", "f", "s", "o", "r", "d", "e", "r", " ", "A", "B", "G", "E", "L", "A", "U", "F", "E", "N">>),
     Str(<<"K", "a", "u", "f", " ", "A", "b", "g", "e", "b", "r", "o", "c", "h", "e", "n">>)}

\* the values of status explored that are "executed" in some case
ExecutedStatuses ==
    {Str(<<"E", "X", "E", "C", "U", "T", "E", "D">>), Str(<<"e", "x", "e", "c", "u", "t", "e", "d">>)}

HasCancellingSubtitle ==
    HasKey(record, "subtitle") /\ Get(record, "subtitle") \in CancellingSubtitles

\* C15: parse_trade_event returns None for every record whose subtitle holds a
\* cancellation or expiry keyword (storniert, abgebrochen, abgelaufen, in any
\* case) and for every record whose status field is present and is not
\* "executed" in any case, whatever buy/sell keyword and details it carries.
C15_RejectsCancelledAndUnexecuted ==
    (/\ parsed # Unparsed
     /\ \/ HasCancellingSubtitle
        \/ /\ HasKey(record, "status")
           /\ Get(record, "status") \notin ExecutedStatuses)
        => parsed = NoTrade

\* C15 (amended): parse_trade_event returns None for every record whose
\* subtitle holds one of the keywords in any case and for every record whose
\* status is a non-empty text that is not "executed" in any case; a status that
\* is null or the empty text is treated like an absent one.
C15_RejectsCancelledAndNonEmptyStatus ==
    /\ (/\ parsed # Unparsed
        /\ \/ HasCancellingSubtitle
           \/ /\ HasKey(record, "status")
              /\ Get(record, "status") \notin ExecutedStatuses \cup {JNull, EmptyStr})
           => parsed = NoTrade
    /\ (/\ parsed # Unparsed
        /\ ~HasCancellingSubtitle
        /\ HasKey(record, "status")
        /\ Get(record, "status") \in {JNull, EmptyStr})
           => parsed = parse_trade_event(MapOf(
                  [k \in 1..Len(record.items) |->
                      IF record.items[k][1] = "status"
                      THEN <<"status", Absent>> ELSE record.items[k]]))

\* an expired sell order that was executed according to its status, and whose
\* amount is null, is rejected
C15_Witness ==
    /\ parsed = NoTrade
    /\ Get(record, "subtitle") = Str(<<"V", "e", "r", "k", "a", "u", "f", "s", "o", "r", "d", "e", "r", " ", "A", "B", "G", "E", "L", "A", "U", "F", "E", "N">>)
    /\ Get(record, "status") = Str(<<"E", "X", "E", "C", "U", "T", "E", "D">>)
    /\ Get(record, "amount") = JNull

(***************************************************************************)
(* C16  records with missing, null or misshapen parts                      *)
(***************************************************************************)
\* C16: parse_trade_event never raises, whatever part of a record is missing,
\* null or of an unexpected shape, and load_trades over such records does not
\* abort: no call of parse_trade_event inside it raises, and neither does its
\* sort.
C16_NeverRaises == ~loaded.raised

(***************************************************************************)
(* C17  which candidate parse_trade_event takes for a field                *)
(***************************************************************************)
SectionsOf(rec) == Get(Get(rec, "details"), "sections").items

\* the 12-character payloads of the sections' actions, in section order
PayloadsOf(rec) ==
    Picked(SectionsOf(rec),
           LAMBDA sec : /\ HasKey(sec, "action")
                        /\ Len(Get(Get(sec, "action"), "payload").chars) = 12,
           LAMBDA sec : Get(Get(sec, "action"), "payload"))

\* the entries of the overview: the data of the last section
OverviewOf(rec) == Get(Last(SectionsOf(rec)), "data").items

HasTitle(entry, titles) ==
    \E title \in titles : Get(entry, "title") = Str(title)

MoneyOf(entry) == parse_money(Get(Get(entry, "detail"), "text"))

SharesOf(entry) == parse_shares(Get(Get(entry, "detail"), "text"))

\* the rows of the table nested in an overview entry
RowsIn(entry) ==
    LET detail == Get(entry, "detail")
    IN  IF HasKey(detail, "action")
        THEN Get(Get(Get(Get(detail, "action"), "payload"),
                     "sections").items[1], "data").items
        ELSE <<>>

\* the rows of all nested tables of the first k overview entries, in order
RECURSIVE NestedRowsOf(_, _)
NestedRowsOf(data, k) ==
    IF k = 0 THEN <<>>
    ELSE NestedRowsOf(data, k - 1) \o RowsIn(data[k])

AllRowsOf(rec) == NestedRowsOf(OverviewOf(rec), Len(OverviewOf(rec)))

\* every 'Summe' of the first k overview entries, of the overview and of the
\* nested tables, in entry order
RECURSIVE SummenOf(_, _)
SummenOf(data, k) ==
    IF k = 0 THEN <<>>
    ELSE SummenOf(data, k - 1) \o
         (IF HasTitle(data[k], {W.Summe}) THEN <<MoneyOf(data[k])>>
          ELSE Picked(RowsIn(data[k]),
                      LAMBDA row : HasTitle(row, {W.Summe}), MoneyOf))

FeeCandidates ==
    Picked(OverviewOf(record), LAMBDA e : HasTitle(e, {W.Gebuehr}), MoneyOf)

OverviewTotals ==
    Picked(OverviewOf(record), LAMBDA e : HasTitle(e, {W.Summe}), MoneyOf)

NestedTotals ==
    Picked(AllRowsOf(record), LAMBDA row : HasTitle(row, {W.Summe}), MoneyOf)

TotalCandidates == SummenOf(OverviewOf(record), Len(OverviewOf(record)))

SharesCandidates ==
    Picked(AllRowsOf(record), LAMBDA row : HasTitle(row, ShareTitles), SharesOf)

PriceCandidates ==
    Picked(AllRowsOf(record), LAMBDA row : HasTitle(row, PriceTitles), MoneyOf)

\* parse_trade_event made a trade of a record of the candidates family
ParsedCandidates ==
    parsed.kind = "trade" /\ Get(record, "amount") = Amount(-9)

\* C17: when a record offers several candidates for one field (12-character
\* header payloads, 'Gebühr' entries, 'Summe' entries of the overview or of a
\* nested table, shares rows, price rows), parse_trade_event takes the first
\* candidate in section/entry order, for each field on its own.
C17_FirstCandidateWins ==
    ParsedCandidates =>
        LET t == parsed.trade
        IN  /\ PayloadsOf(record) # <<>> => t.isin = PayloadsOf(record)[1]
            /\ FeeCandidates # <<>> => t.fee = FeeCandidates[1]
            /\ TotalCandidates # <<>> => t.total = TotalCandidates[1]
            /\ SharesCandidates # <<>> => t.shares = SharesCandidates[1]
            /\ PriceCandidates # <<>> => t.price = PriceCandidates[1]

\* C17 (amended): for instrument_id, fee, shares and price_per_share
\* parse_trade_event takes the last candidate in section/entry order, for each
\* field on its own; for total it takes the last 'Summe' entry of the
\* overview, and without one the first 'Summe' row of the nested tables.
C17_LastCandidateWins ==
    ParsedCandidates =>
        LET t == parsed.trade
        IN  /\ PayloadsOf(record) # <<>> => t.isin = Last(PayloadsOf(record))
            /\ FeeCandidates # <<>> => t.fee = Last(FeeCandidates)
            /\ OverviewTotals # <<>> => t.total = Last(OverviewTotals)
            /\ OverviewTotals = <<>> /\ NestedTotals # <<>>
                   => t.total = NestedTotals[1]
            /\ SharesCandidates # <<>> => t.shares = Last(SharesCandidates)
            /\ PriceCandidates # <<>> => t.price = Last(PriceCandidates)

\* two payloads, two fees and a nested table with two rows each for shares,
\* price and total, and no total in the overview: the later one of each is
\* taken, but the first of the nested totals
C17_Witness ==
    /\ ParsedCandidates
    /\ PayloadsOf(record) = <<Str(W.IsinA), Str(W.IsinB)>>
    /\ FeeCandidates = <<Q(1), Q(2)>>
    /\ SharesCandidates = <<Q(2), Q(3)>>
    /\ PriceCandidates = <<Q(1), Q(4)>>
    /\ NestedTotals = <<Q(6), Q(7)>>
    /\ parsed.trade.isin = Str(W.IsinB)
    /\ parsed.trade.fee = Q(2)
    /\ parsed.trade.shares = Q(3)
    /\ parsed.trade.price = Q(4)
    /\ parsed.trade.total = Q(6)

FractionDigits(x) ==
    LET s == PlainString(x)
    IN  Len(s) - (CHOOSE k \in 1..Len(s) : s[k] = ".")

RECURSIVE SumBasis(_, _)
SumBasis(s, j) ==
    IF j = 0 THEN Zero ELSE Add(SumBasis(s, j - 1), s[j].cost_basis)

RECURSIVE SumLots(_, _)
SumLots(b, j) ==
    IF j = 0 THEN Zero ELSE Add(SumLots(b, j - 1), FifoLot(b[j]).cost)

\* avg_realized: a buy adds its cost to the pool, and what a sell of any year
\* takes out of the pool is its cost basis
C19_AvgStep ==
    LET tr   == trades'[Len(trades')]
        pos  == avg.positions[tr.isin]
        pos2 == avg'.positions[tr.isin]
    IN  ~Unusable(tr) =>
          IF tr.side = "buy"
          THEN pos2.cost = Add(pos.cost, AvgCostAdd(tr))
          ELSE Add(pos2.cost, AvgSale(pos, tr).cost_basis) = pos.cost

\* fifo_realized, as long as it runs: the costs of the lots bought are the cost
\* bases of the reported sells plus the costs of the lots still queued
C19_FifoHeld ==
    fifo.raised \/ \A i \in ISINS :
        LET b == BuysOf(i)
            s == SalesOf(fifo.per_sale, i)
            q == fifo.positions[i]
        IN  SumLots(b, Len(b)) = Add(SumBasis(s, Len(s)), SumCost(q, Len(q)))

\* C19: cost is conserved in both engines: after any list of trades with
\* non-negative shares the costs added by the processed buys of an instrument
\* equal the cost bases of the sells that consumed its inventory plus the cost
\* still held in its position.
C19_CostConserved == []C19_FifoHeld /\ [][C19_AvgStep]_vars

(***************************************************************************)
(* C20  the pools of avg_realized                                          *)
(***************************************************************************)
\* C20: in avg_realized, after every trade of a list of trades with
\* non-negative shares, every pool has qty >= 0 and cost >= 0, and a pool of
\* quantity 0 holds no cost.
C20_AvgPoolsSound ==
    \A i \in ISINS :
        LET pos == avg.positions[i]
        IN  /\ pos.qty.n >= 0
            /\ pos.cost.n >= 0
            /\ pos.qty.n = 0 => pos.cost.n = 0

(***************************************************************************)
(* C21  the division lot_cost / lot_shares of fifo_realized                *)
(***************************************************************************)
\* a sell that fifo_realized has processed left the lot it consumed last partly
\* in the queue: that lot keeps shares > 0 and its cost per share
C21_PartialStep ==
    LET tr == trades'[Len(trades')]
        q  == fifo.positions[tr.isin]
        q2 == fifo'.positions[tr.isin]
        k  == Len(q) - Len(q2) + 1
    IN  (/\ Reportable(tr) /\ ~fifo.raised /\ ~fifo'.raised
         /\ q2 # <<>>
         /\ q2[1] # q[k]) =>
            /\ q2[1].shares.n > 0
            /\ Mul(q2[1].cost, q[k].shares) = Mul(q[k].cost, q2[1].shares)

\* C21: in fifo_realized, for every list of trades with non-negative shares,
\* zero-share buys included, the lot at the front of a queue has shares > 0
\* whenever a sell consumes it, so lot_cost / lot_shares is defined and the
\* engine never aborts; a lot consumed in part keeps shares > 0 and its cost
\* per share.
C21_FifoNeverDividesByZero == [](~fifo.raised) /\ [][C21_PartialStep]_vars

====
